---- MODULE Spec2Model ----
(***************************************************************************)
(* Model of the stock_agent HTTP service: the financial-data endpoint      *)
(* (src/main.py get_financial_data), the analysis endpoint (src/main.py    *)
(* analyze_financial_data) and the analysis function (src/analyzer.py      *)
(* analyze_financial_data).                                                *)
(*                                                                         *)
(* Text is modelled as a sequence of one-character strings, so that        *)
(* str.lower(), string equality and file overwrites are computed.          *)
(***************************************************************************)
EXTENDS Integers, Sequences, FiniteSets, TLC

\* ------------------------------------------------------------------ bounds
\* Largest number of data rows of a statement drawn in FilterSpec.
MaxRows == 3
\* Number of request slots (requests that may be in flight in ConcSpec).
NumReqs == 2

\* ------------------------------------------------------------------- text
\* str.lower() on one character of the model's alphabet.
LowerChar(c) ==
  CASE c = "A" -> "a"
    [] c = "B" -> "b"
    [] c = "T" -> "t"
    [] OTHER -> c

\* str.lower(): every character lowered, length and order kept.
Lower(s) == [k \in 1..Len(s) |-> LowerChar(s[k])]

IsDigit(c) == c \in {"1", "2"}

DigitVal(c) == IF c = "1" THEN 1 ELSE 2

\* A CSV cell that pandas reads as a number: non-empty, digits only.
IsNumeric(s) == Len(s) > 0 /\ \A k \in 1..Len(s) : IsDigit(s[k])

RECURSIVE ParseNum(_)
ParseNum(s) ==
  IF s = <<>> THEN 0
  ELSE 10 * ParseNum(SubSeq(s, 1, Len(s) - 1)) + DigitVal(s[Len(s)])

\* ----------------------------------------------------------- report types
\* class ReportType(Enum): the three values.
ReportTypeValues == <<"income_statement", "balance_sheet", "cash_flow">>

ValidReportTypes == {ReportTypeValues[k] : k \in 1..Len(ReportTypeValues)}

\* constants.py is not part of the sources: the three whitelists are taken
\* from the specification (disjoint sets of canonical, lowercase labels).
INCOME_STATEMENT_METRICS == {<<"a">>, <<"a", "b">>}

BALANCE_SHEET_METRICS == {<<"b">>}

CASH_FLOW_METRICS == {<<"b", "a">>}

\* metric_mapping[report_type_enum]
MetricMapping(rt) ==
  CASE rt = "income_statement" -> INCOME_STATEMENT_METRICS
    [] rt = "balance_sheet" -> BALANCE_SHEET_METRICS
    [] rt = "cash_flow" -> CASH_FLOW_METRICS

\* ------------------------------------------------------------ cell values
StrVal(s) == [t |-> "str", s |-> s, n |-> 0]

NumVal(k) == [t |-> "num", s |-> <<>>, n |-> k]

NaN == [t |-> "nan", s |-> <<>>, n |-> 0]

\* ---------------------------------------------------------- pd.read_csv
\* CSV content is a sequence of lines, each a sequence of cell texts; the
\* first line is the header.  Column k of the data lines.
ColumnCells(lines, k) == [r \in 1..(Len(lines) - 1) |-> lines[r + 1][k]]

\* dtype inference: a column with no data rows, or with a cell that is
\* neither empty nor a number, is an object column; otherwise it is numeric
\* (float64, also when every cell is empty).
ColumnDtype(cells) ==
  IF Len(cells) = 0 THEN "object"
  ELSE IF \A r \in 1..Len(cells) : cells[r] = <<>> \/ IsNumeric(cells[r])
       THEN "float64"
       ELSE "object"

\* One cell under its column's dtype: an empty cell is NaN, a cell of a
\* numeric column is a number, a cell of an object column stays text.
CellValue(cell, dtype) ==
  IF cell = <<>> THEN NaN
  ELSE IF dtype = "float64" THEN NumVal(ParseNum(cell))
       ELSE StrVal(cell)

\* Outcome of an operation that may raise.
Ok(v) == [ok |-> TRUE, err |-> "", val |-> v]

Raise(e) == [ok |-> FALSE, err |-> e, val |-> <<>>]

\* pd.read_csv(BytesIO(csv_content)): no line at all raises EmptyDataError;
\* columns and rows keep the input order.
ReadCsv(lines) ==
  IF lines = <<>> THEN Raise("EmptyDataError")
  ELSE LET cols == lines[1]
           dts == [k \in 1..Len(cols) |-> ColumnDtype(ColumnCells(lines, k))]
       IN Ok([columns |-> cols,
              dtypes |-> dts,
              rows |-> [r \in 1..(Len(lines) - 1) |->
                          [k \in 1..Len(cols) |-> CellValue(lines[r + 1][k], dts[k])]]])

\* ---------------------------------------------------------- metric filter
\* df[first_col].str.lower().isin(selected_metrics) for one row: NaN stays
\* NaN under .str.lower() and is in no list.
RowSelected(row, metrics) == row[1].t = "str" /\ Lower(row[1].s) \in metrics

\* Keeps every row but the first selected one.
RECURSIVE DropFirstSelected(_, _)
DropFirstSelected(rows, metrics) ==
  IF rows = <<>> THEN <<>>
  ELSE IF RowSelected(rows[1], metrics) THEN Tail(rows)
       ELSE <<rows[1]>> \o DropFirstSelected(Tail(rows), metrics)

\* A filter that loses the first selected row (an off-by-one in the mask).
MetricFilterDropsOne(df, rt) ==
  IF Len(df.columns) = 0 THEN Raise("IndexError")
  ELSE IF df.dtypes[1] # "object" THEN Raise("AttributeError")
  ELSE Ok([df EXCEPT !.rows =
             DropFirstSelected(SelectSeq(df.rows,
               LAMBDA row : RowSelected(row, MetricMapping(rt))), MetricMapping(rt))])

\* selected_metrics = metric_mapping[report_type_enum]
\* first_col_name = df.columns[0]
\* df = df[df[first_col_name].str.lower().isin(selected_metrics)]
\* The .str accessor raises AttributeError on a column that is not an object
\* (string) column.
MetricFilter(df, rt) ==
  IF Len(df.columns) = 0 THEN Raise("IndexError")
  ELSE IF df.dtypes[1] # "object" THEN Raise("AttributeError")
  ELSE Ok([df EXCEPT !.rows =
             SelectSeq(df.rows, LAMBDA row : RowSelected(row, MetricMapping(rt)))])

\* {"data": df.to_dict('records'), "columns": df.columns.tolist()}
DataBody(df) == [data |-> df.rows, columns |-> df.columns]

\* ------------------------------------------------------------------ state
VARIABLES
  credentials, \* os.getenv('GOOGLE_APPLICATION_CREDENTIALS_JSON')
  bucket,      \* blobs of BUCKET_NAME: blob name -> CSV content
  files,       \* files under OUTPUT_DIR: path -> text
  pc,          \* per request: the handler's position
  req,         \* per request: path parameters or JSON body
  calls,       \* per request: the external calls made so far, in order
  resp,        \* per request: the response the client receives
  printed,     \* per request: what the analysis function printed, in order
  gen,         \* per request: what model.generate_content did
  csv,         \* per request: csv_content
  touched,     \* per request: the local files accessed, with the access mode
  fstage,      \* filter pipeline: stage
  fcsv,        \* filter pipeline: CSV content
  frt,         \* filter pipeline: report type
  fdf,         \* filter pipeline: the parsed table
  fout,        \* filter pipeline: outcome of the filter
  fagain       \* filter pipeline: outcome of filtering the filtered table

httpVars == <<credentials, bucket, files, pc, req, calls, resp, printed, gen, csv, touched>>

filterVars == <<fstage, fcsv, frt, fdf, fout, fagain>>

vars == <<credentials, bucket, files, pc, req, calls, resp, printed, gen, csv, touched,
          fstage, fcsv, frt, fdf, fout, fagain>>

Reqs == 1..NumReqs

\* --------------------------------------------------------------- inputs
\* Ticker path parameters / body values: two spellings of one ticker and
\* another ticker.
Tickers == {<<"T">>, <<"t">>, <<"a">>}

\* report_type path parameters: the three valid values and a misspelling.
ReportTypeInputs == ValidReportTypes \cup {"cashflow"}

Questions == {<<>>, <<"q">>}

\* Texts the model may return (of different lengths).
Texts == {<<"x", "y">>, <<"z">>}

\* Failures of the text-generation call.
GenErrors == {"timeout", "quota"}

\* Values of the credentials environment variable: unset, empty, not
\* base64-encoded JSON, a base64-encoded service-account JSON.
CredentialValues == {"None", "", "garbage", "b64json"}

\* Statements the bucket may hold: text labels (mixed case, with and without
\* a whitelist match), numeric labels only, and an empty blob.
TextCsv ==
  << <<<<"m">>, <<"y">>>>,
     <<<<"A">>, <<"1">>>>,
     <<<<"a", "b", "a">>, <<"2">>>>,
     <<<<"b">>, <<>>>>,
     <<<<"a", "B">>, <<"1", "2">>>> >>

NumericCsv ==
  << <<<<"m">>, <<"y">>>>,
     <<<<"1">>, <<"2">>>> >>

SampleCsvs == {TextCsv, NumericCsv, <<>>}

\* f"{ticker.lower()}_{report_type}.csv"
BlobName(ticker, report_type) == Lower(ticker) \o <<"_", report_type, ".csv">>

\* os.path.join(output_dir, f"{ticker}_<suffix>")
OutputPath(ticker, suffix) == <<"outputs", "/">> \o ticker \o <<suffix>>

StatementPaths(ticker) ==
  {OutputPath(ticker, "_income_statement.csv"), OutputPath(ticker, "_balance_sheet.csv")}

StatementText == <<"s">>

\* Bucket contents at start: empty, or one statement of ticker t.
InitialBuckets ==
  {<<>>} \cup
  {[n \in {BlobName(<<"t">>, rt)} |-> c] : rt \in {"income_statement", "cash_flow"},
                                         c \in SampleCsvs}

\* Local statement files at start (written by the separate scraper): none,
\* both statements of t, only the income statement of t, both of t and a.
InitialFiles ==
  { [p \in S |-> StatementText] :
      S \in { {}, StatementPaths(<<"t">>), {OutputPath(<<"t">>, "_income_statement.csv")},
              StatementPaths(<<"t">>) \cup StatementPaths(<<"a">>) } }

\* ------------------------------------------------------- request records
NoReq == [kind |-> "none", ticker |-> <<>>, has_ticker |-> FALSE, report_type |-> "",
          question |-> <<>>, has_question |-> FALSE, json_ok |-> FALSE]

GetReq(ticker, rt) ==
  [kind |-> "GET", ticker |-> ticker, has_ticker |-> TRUE, report_type |-> rt,
   question |-> <<>>, has_question |-> FALSE, json_ok |-> FALSE]

PostReq(json_ok, has_ticker, ticker, has_question, question) ==
  [kind |-> "POST", ticker |-> ticker, has_ticker |-> has_ticker, report_type |-> "",
   question |-> question, has_question |-> has_question, json_ok |-> json_ok]

\* JSON bodies of POST /api/company/analyze: not JSON, or an object with or
\* without "ticker" and "question".
PostBodies ==
  {PostReq(FALSE, FALSE, <<>>, FALSE, <<>>)} \cup
  {PostReq(TRUE, TRUE, t, TRUE, q) : t \in Tickers, q \in Questions} \cup
  {PostReq(TRUE, TRUE, t, FALSE, <<>>) : t \in Tickers} \cup
  {PostReq(TRUE, FALSE, <<>>, TRUE, <<"q">>)}

\* ---------------------------------------------------- exceptions, responses
Exc(type) == [type |-> type, status |-> 0, msg |-> "", values |-> <<>>]

NoExc == Exc("")

\* HTTPException(status_code=400, detail=f"Invalid report type. Must be one
\* of: {[rt.value for rt in ReportType]}")
InvalidReportType ==
  [type |-> "HTTPException", status |-> 400,
   msg |-> "Invalid report type. Must be one of:", values |-> ReportTypeValues]

\* HTTPException(status_code=400, detail="Question is required in request body")
QuestionRequired ==
  [type |-> "HTTPException", status |-> 400,
   msg |-> "Question is required in request body", values |-> <<>>]

NoBody == [none |-> TRUE]

NoResp == [status |-> 0, detail |-> NoExc, body |-> NoBody]

\* A returned dict: FastAPI answers 200 with it as the JSON body.
Returned(body) == [status |-> 200, detail |-> NoExc, body |-> body]

\* get_financial_data: except Exception as e: raise HTTPException(500,
\* detail=str(e)).  Every exception raised in the try block lands here, the
\* HTTPException of the validation included; str(e) keeps e's text.
FinancialDataExcept(e) == [status |-> 500, detail |-> e, body |-> NoBody]

\* analyze_financial_data (main.py): except Exception as e: logger.error;
\* raise HTTPException(500, "Something went wrong. Please try again later.")
AnalyzeExcept(e) ==
  [status |-> 500,
   detail |-> [type |-> "HTTPException", status |-> 500,
               msg |-> "Something went wrong. Please try again later.", values |-> <<>>],
   body |-> NoBody]

\* if not credentials / if not question
Falsy(v) == v \in {"None", ""}

NoGen == [kind |-> "none", err |-> "", text |-> <<>>]

Msg(m, e, t) == [msg |-> m, err |-> e, text |-> t]

\* ------------------------------------------------------------ arrivals
\* A request slot is free again once its response has been delivered.
Fresh(i) ==
  /\ calls' = [calls EXCEPT ![i] = <<>>]
  /\ resp' = [resp EXCEPT ![i] = NoResp]
  /\ printed' = [printed EXCEPT ![i] = <<>>]
  /\ gen' = [gen EXCEPT ![i] = NoGen]
  /\ csv' = [csv EXCEPT ![i] = <<>>]
  /\ touched' = [touched EXCEPT ![i] = {}]

\* GET /api/financial-data/{ticker}/{report_type} is routed to get_financial_data.
GetArrive(i) ==
  /\ pc[i] = "idle"
  /\ \E t \in Tickers, rt \in ReportTypeInputs : req' = [req EXCEPT ![i] = GetReq(t, rt)]
  /\ pc' = [pc EXCEPT ![i] = "g_validate"]
  /\ UNCHANGED <<credentials, bucket, files, calls, resp, printed, gen, csv, touched>>
  /\ UNCHANGED filterVars

\* POST /api/company/analyze is routed to analyze_financial_data (main.py).
PostArrive(i) ==
  /\ pc[i] = "idle"
  /\ \E b \in PostBodies : req' = [req EXCEPT ![i] = b]
  /\ pc' = [pc EXCEPT ![i] = "p_body"]
  /\ UNCHANGED <<credentials, bucket, files, calls, resp, printed, gen, csv, touched>>
  /\ UNCHANGED filterVars

\* The response is sent; the request's locals are gone.
Deliver(i) ==
  /\ pc[i] = "respond"
  /\ pc' = [pc EXCEPT ![i] = "idle"]
  /\ req' = [req EXCEPT ![i] = NoReq]
  /\ Fresh(i)
  /\ UNCHANGED <<credentials, bucket, files>>
  /\ UNCHANGED filterVars

\* The handler of request i ends with response r.
Respond(i, r) ==
  /\ resp' = [resp EXCEPT ![i] = r]
  /\ pc' = [pc EXCEPT ![i] = "respond"]

Called(i, name) == calls' = [calls EXCEPT ![i] = Append(@, name)]

\* ------------------------------------------------- get_financial_data
\* A handler that reads the environment before it looks at report_type.
ValidateReportTypeLate(i) ==
  /\ pc[i] = "g_validate"
  /\ Called(i, "getenv")
  /\ IF req[i].report_type \in ValidReportTypes
     THEN pc' = [pc EXCEPT ![i] = "g_getenv"] /\ UNCHANGED resp
     ELSE Respond(i, FinancialDataExcept(InvalidReportType))
  /\ UNCHANGED <<credentials, bucket, files, req, printed, gen, csv, touched>>
  /\ UNCHANGED filterVars

\* report_type_enum = ReportType(report_type); a ValueError becomes
\* HTTPException(400), raised inside the outer try.
ValidateReportType(i) ==
  /\ pc[i] = "g_validate"
  /\ IF req[i].report_type \in ValidReportTypes
     THEN pc' = [pc EXCEPT ![i] = "g_getenv"] /\ UNCHANGED resp
     ELSE Respond(i, FinancialDataExcept(InvalidReportType))
  /\ UNCHANGED <<credentials, bucket, files, req, calls, printed, gen, csv, touched>>
  /\ UNCHANGED filterVars

\* credentials = os.getenv(...); if not credentials: return {"data": []}
GetCredentials(i) ==
  /\ pc[i] = "g_getenv"
  /\ Called(i, "getenv")
  /\ IF Falsy(credentials)
     THEN Respond(i, Returned([data |-> <<>>]))
     ELSE pc' = [pc EXCEPT ![i] = "g_decode"] /\ UNCHANGED resp
  /\ UNCHANGED <<credentials, bucket, files, req, printed, gen, csv, touched>>
  /\ UNCHANGED filterVars

\* json.loads(base64.b64decode(credentials)), from_service_account_info,
\* storage.Client(credentials=credentials): a value that is not
\* base64-encoded JSON raises before any client exists.
MakeClient(i) ==
  /\ pc[i] = "g_decode"
  /\ IF credentials = "b64json"
     THEN /\ Called(i, "Client")
          /\ pc' = [pc EXCEPT ![i] = "g_exists"]
          /\ UNCHANGED resp
     ELSE /\ Respond(i, FinancialDataExcept(Exc("ValueError")))
          /\ UNCHANGED calls
  /\ UNCHANGED <<credentials, bucket, files, req, printed, gen, csv, touched>>
  /\ UNCHANGED filterVars

\* A handler that downloads without asking whether the blob exists.
BlobExistsSkipped(i) ==
  /\ pc[i] = "g_exists"
  /\ pc' = [pc EXCEPT ![i] = "g_download"]
  /\ UNCHANGED <<credentials, bucket, files, req, calls, resp, printed, gen, csv, touched>>
  /\ UNCHANGED filterVars

\* csv_blob = bucket.blob(name); if not csv_blob.exists(): return
\* {"data": [], "columns": []}.  The call goes to the storage service and
\* may fail.
BlobExists(i) ==
  /\ pc[i] = "g_exists"
  /\ Called(i, "exists")
  /\ \E fails \in BOOLEAN :
       IF fails
       THEN Respond(i, FinancialDataExcept(Exc("TransportError")))
       ELSE IF BlobName(req[i].ticker, req[i].report_type) \notin DOMAIN bucket
       THEN Respond(i, Returned([data |-> <<>>, columns |-> <<>>]))
       ELSE pc' = [pc EXCEPT ![i] = "g_download"] /\ UNCHANGED resp
  /\ UNCHANGED <<credentials, bucket, files, req, printed, gen, csv, touched>>
  /\ UNCHANGED filterVars

\* csv_content = csv_blob.download_as_string(): the call may fail in
\* transport, and raises NotFound for a blob that does not exist.
Download(i) ==
  /\ pc[i] = "g_download"
  /\ Called(i, "download")
  /\ \E fails \in BOOLEAN :
       IF fails
       THEN Respond(i, FinancialDataExcept(Exc("TransportError"))) /\ UNCHANGED csv
       ELSE IF BlobName(req[i].ticker, req[i].report_type) \notin DOMAIN bucket
       THEN Respond(i, FinancialDataExcept(Exc("NotFound"))) /\ UNCHANGED csv
       ELSE /\ csv' = [csv EXCEPT ![i] = bucket[BlobName(req[i].ticker, req[i].report_type)]]
            /\ pc' = [pc EXCEPT ![i] = "g_parse"]
            /\ UNCHANGED resp
  /\ UNCHANGED <<credentials, bucket, files, req, printed, gen, touched>>
  /\ UNCHANGED filterVars

\* df = pd.read_csv(...); the metric filter; return {"data": ..., "columns": ...}
ParseAndFilter(i) ==
  /\ pc[i] = "g_parse"
  /\ Called(i, "read_csv")
  /\ LET parsed == ReadCsv(csv[i])
         out == MetricFilter(parsed.val, req[i].report_type)
     IN IF ~parsed.ok THEN Respond(i, FinancialDataExcept(Exc(parsed.err)))
        ELSE IF ~out.ok THEN Respond(i, FinancialDataExcept(Exc(out.err)))
        ELSE Respond(i, Returned(DataBody(out.val)))
  /\ UNCHANGED <<credentials, bucket, files, req, printed, gen, csv, touched>>
  /\ UNCHANGED filterVars

\* ------------------------------------------- analyze_financial_data (main.py)
\* body = await request.json(); question = body.get('question');
\* ticker = body.get('ticker').  A body that is not JSON raises.
ReadBody(i) ==
  /\ pc[i] = "p_body"
  /\ IF req[i].json_ok
     THEN pc' = [pc EXCEPT ![i] = "p_check"] /\ UNCHANGED resp
     ELSE Respond(i, AnalyzeExcept(Exc("JSONDecodeError")))
  /\ UNCHANGED <<credentials, bucket, files, req, calls, printed, gen, csv, touched>>
  /\ UNCHANGED filterVars

\* if not question: raise HTTPException(400, ...), inside the try whose
\* except Exception turns every exception into a 500.
CheckQuestion(i) ==
  /\ pc[i] = "p_check"
  /\ IF ~req[i].has_question \/ req[i].question = <<>>
     THEN Respond(i, AnalyzeExcept(QuestionRequired))
     ELSE pc' = [pc EXCEPT ![i] = "a_start"] /\ UNCHANGED resp
  /\ UNCHANGED <<credentials, bucket, files, req, calls, printed, gen, csv, touched>>
  /\ UNCHANGED filterVars

\* return {"status": "success", "data": analysis_result}: the analysis
\* function has no return value, so data is None.
ReturnAnalysis(i) ==
  /\ pc[i] = "p_return"
  /\ Respond(i, Returned([status |-> "success", data |-> "None"]))
  /\ UNCHANGED <<credentials, bucket, files, req, calls, printed, gen, csv, touched>>
  /\ UNCHANGED filterVars

\* ----------------------------------------- analyze_financial_data (analyzer.py)
Printed(i, m) == printed' = [printed EXCEPT ![i] = Append(@, m)]

Touched(i, S) == touched' = [touched EXCEPT ![i] = @ \cup S]

\* main.py calls the analysis function of analyzer.py (imported there under
\* the name analyze_financial_data_from_question) with ticker and question.
\* The analysis function is entered: ticker = ticker.lower() (None has no
\* lower(): the AttributeError reaches the handler); both statement files
\* must exist, else a message is printed and the function returns.
StartAnalysis(i) ==
  /\ pc[i] = "a_start"
  /\ Called(i, "analyze")
  /\ IF ~req[i].has_ticker
     THEN /\ Respond(i, AnalyzeExcept(Exc("AttributeError")))
          /\ UNCHANGED <<printed, touched>>
     ELSE /\ Touched(i, {[path |-> p, mode |-> "r"] : p \in StatementPaths(Lower(req[i].ticker))})
          /\ UNCHANGED resp
          /\ IF StatementPaths(Lower(req[i].ticker)) \subseteq DOMAIN files
             THEN pc' = [pc EXCEPT ![i] = "a_generate"] /\ UNCHANGED printed
             ELSE pc' = [pc EXCEPT ![i] = "p_return"] /\ Printed(i, Msg("not_found", "", <<>>))
  /\ UNCHANGED <<credentials, bucket, files, req, gen, csv>>
  /\ UNCHANGED filterVars

\* What the text-generation service does with one call: fails, answers with
\* no text, or answers with a text.
GenOutcomes ==
  {[kind |-> "raise", err |-> e, text |-> <<>>] : e \in GenErrors} \cup
  {[kind |-> "text", err |-> "", text |-> <<>>]} \cup
  {[kind |-> "text", err |-> "", text |-> t] : t \in Texts}

\* An analysis function without the try block: a failure of the call leaves
\* the function as an exception.
GenerateUncaught(i) ==
  /\ pc[i] = "a_generate"
  /\ Called(i, "generate_content")
  /\ \E g \in GenOutcomes :
       /\ gen' = [gen EXCEPT ![i] = g]
       /\ IF g.kind = "raise"
          THEN Respond(i, AnalyzeExcept(Exc(g.err))) /\ UNCHANGED printed
          ELSE /\ UNCHANGED resp
               /\ IF g.text = <<>>
                  THEN pc' = [pc EXCEPT ![i] = "p_return"]
                       /\ Printed(i, Msg("no_analysis", "", <<>>))
                  ELSE pc' = [pc EXCEPT ![i] = "a_open"]
                       /\ Printed(i, Msg("analysis", "", g.text))
  /\ UNCHANGED <<credentials, bucket, files, req, csv, touched>>
  /\ UNCHANGED filterVars

\* try: read both statements; response = model.generate_content([...]);
\* if response.text: print it ... else: print "No analysis generated";
\* except Exception as e: print(f"Error during analysis: {e}")
Generate(i) ==
  /\ pc[i] = "a_generate"
  /\ Called(i, "generate_content")
  /\ \E g \in GenOutcomes :
       /\ gen' = [gen EXCEPT ![i] = g]
       /\ IF g.kind = "raise"
          THEN pc' = [pc EXCEPT ![i] = "p_return"] /\ Printed(i, Msg("error", g.err, <<>>))
          ELSE IF g.text = <<>>
          THEN pc' = [pc EXCEPT ![i] = "p_return"] /\ Printed(i, Msg("no_analysis", "", <<>>))
          ELSE pc' = [pc EXCEPT ![i] = "a_open"] /\ Printed(i, Msg("analysis", "", g.text))
  /\ UNCHANGED <<credentials, bucket, files, req, resp, csv, touched>>
  /\ UNCHANGED filterVars

AnalysisFile(i) == OutputPath(Lower(req[i].ticker), "_analysis.txt")

\* with open(analysis_file, "w") as f: opening truncates the file; it may
\* fail (OSError), which the same except block reports.
OpenAnalysisFile(i) ==
  /\ pc[i] = "a_open"
  /\ Touched(i, {[path |-> AnalysisFile(i), mode |-> "w"]})
  /\ \E fails \in BOOLEAN :
       IF fails
       THEN /\ pc' = [pc EXCEPT ![i] = "p_return"]
            /\ Printed(i, Msg("error", "OSError", <<>>))
            /\ UNCHANGED files
       ELSE /\ pc' = [pc EXCEPT ![i] = "a_write"]
            /\ files' = [p \in DOMAIN files \cup {AnalysisFile(i)} |->
                           IF p = AnalysisFile(i) THEN <<>> ELSE files[p]]
            /\ UNCHANGED printed
  /\ UNCHANGED <<credentials, bucket, req, calls, resp, gen, csv>>
  /\ UNCHANGED filterVars

\* Writing text at offset 0 of a file that holds old.
Overwrite(old, text) == text \o SubSeq(old, Len(text) + 1, Len(old))

\* f.write(response.text), flushed when the with block closes the file at
\* this handle's offset 0; print "Analysis saved".  The write may fail.
WriteAnalysisFile(i) ==
  /\ pc[i] = "a_write"
  /\ pc' = [pc EXCEPT ![i] = "p_return"]
  /\ \E fails \in BOOLEAN :
       IF fails
       THEN Printed(i, Msg("error", "OSError", <<>>)) /\ UNCHANGED files
       ELSE /\ Printed(i, Msg("saved", "", <<>>))
            /\ files' = [files EXCEPT ![AnalysisFile(i)] = Overwrite(@, gen[i].text)]
  /\ UNCHANGED <<credentials, bucket, req, calls, resp, gen, csv, touched>>
  /\ UNCHANGED filterVars

\* ------------------------------------------------------- specifications
IdleRequests ==
  /\ pc = [i \in Reqs |-> "idle"]
  /\ req = [i \in Reqs |-> NoReq]
  /\ calls = [i \in Reqs |-> <<>>]
  /\ resp = [i \in Reqs |-> NoResp]
  /\ printed = [i \in Reqs |-> <<>>]
  /\ gen = [i \in Reqs |-> NoGen]
  /\ csv = [i \in Reqs |-> <<>>]
  /\ touched = [i \in Reqs |-> {}]

FilterOff ==
  /\ fstage = "off"
  /\ fcsv = <<>>
  /\ frt = ""
  /\ fdf = Raise("")
  /\ fout = Raise("")
  /\ fagain = Raise("")

\* The service after start-up: no request in flight, the environment, the
\* bucket and the output directory as the deployment left them.
Init ==
  /\ credentials \in CredentialValues
  /\ bucket \in InitialBuckets
  /\ files \in InitialFiles
  /\ IdleRequests
  /\ FilterOff

\* One step of the handler of request i.
Step(i) ==
  \/ ValidateReportType(i)
  \/ GetCredentials(i)
  \/ MakeClient(i)
  \/ BlobExists(i)
  \/ Download(i)
  \/ ParseAndFilter(i)
  \/ ReadBody(i)
  \/ CheckQuestion(i)
  \/ StartAnalysis(i)
  \/ Generate(i)
  \/ OpenAnalysisFile(i)
  \/ WriteAnalysisFile(i)
  \/ ReturnAnalysis(i)
  \/ Deliver(i)

\* No handler is running.
Quiet == \A j \in Reqs : pc[j] = "idle"

\* One worker: the handlers are coroutines of one event loop whose bodies
\* block it, so a request is taken up when no other handler is running.
Next ==
  \E i \in Reqs :
    \/ Quiet /\ GetArrive(i)
    \/ Quiet /\ PostArrive(i)
    \/ Step(i)

Spec == Init /\ [][Next]_vars

\* Several workers: requests are taken up at any time and the steps of their
\* handlers interleave.  The deployment has credentials, one statement in
\* the bucket and the statements of t on disk.
ConcInit ==
  /\ credentials = "b64json"
  /\ bucket = [n \in {BlobName(<<"t">>, "income_statement")} |-> TextCsv]
  /\ files = [p \in StatementPaths(<<"t">>) |-> StatementText]
  /\ IdleRequests
  /\ FilterOff

ConcNext ==
  \E i \in Reqs :
    \/ GetArrive(i)
    \/ PostArrive(i)
    \/ Step(i)

ConcSpec == ConcInit /\ [][ConcNext]_vars

\* ---------------------------------------------------- the filter pipeline
\* Row labels of the statements drawn: empty, numeric, whitelisted in either
\* case, and labels that only contain a whitelisted label.
Labels ==
  {<<>>, <<"1">>, <<"a">>, <<"A">>, <<"A", "b">>, <<"a", "b", "a">>, <<"B">>, <<"b", "A">>}

ValueCells == {<<"1">>, <<"2">>}

Header == <<<<"m">>, <<"y">>>>

RECURSIVE RowsUpTo(_)
RowsUpTo(n) ==
  IF n = 0 THEN {<<>>}
  ELSE RowsUpTo(n - 1) \cup
       {Append(rs, <<l, v>>) : rs \in {x \in RowsUpTo(n - 1) : Len(x) = n - 1},
                               l \in Labels, v \in ValueCells}

\* Blob contents: nothing at all, or the header and up to MaxRows data lines.
CsvInputs == {<<>>} \cup {<<Header>> \o rs : rs \in RowsUpTo(MaxRows)}

FilterInit ==
  /\ credentials = "None"
  /\ bucket = <<>>
  /\ files = <<>>
  /\ IdleRequests
  /\ fstage = "raw"
  /\ fcsv \in CsvInputs
  /\ frt \in ValidReportTypes
  /\ fdf = Raise("")
  /\ fout = Raise("")
  /\ fagain = Raise("")

\* df = pd.read_csv(pd.io.common.BytesIO(csv_content))
FParse ==
  /\ fstage = "raw"
  /\ fdf' = ReadCsv(fcsv)
  /\ fstage' = IF ReadCsv(fcsv).ok THEN "parsed" ELSE "failed"
  /\ UNCHANGED <<fcsv, frt, fout, fagain>>
  /\ UNCHANGED httpVars

\* The metric filter on the parsed table.
FFilter ==
  /\ fstage = "parsed"
  /\ fout' = MetricFilter(fdf.val, frt)
  /\ fstage' = "filtered"
  /\ UNCHANGED <<fcsv, frt, fdf, fagain>>
  /\ UNCHANGED httpVars

\* The metric filter on its own result, same report type.
FRefilter ==
  /\ fstage = "filtered"
  /\ fout.ok
  /\ fagain' = MetricFilter(fout.val, frt)
  /\ fstage' = "refiltered"
  /\ UNCHANGED <<fcsv, frt, fdf, fout>>
  /\ UNCHANGED httpVars

FilterNext == FParse \/ FFilter \/ FRefilter

FilterSpec == FilterInit /\ [][FilterNext]_vars

\* ------------------------------------------------------------------ claims
Has(seq, x) == \E k \in 1..Len(seq) : seq[k] = x

EmptyData == Returned([data |-> <<>>, columns |-> <<>>])

GetDone(i) == req[i].kind = "GET" /\ pc[i] = "respond"

PostDone(i) == req[i].kind = "POST" /\ pc[i] = "respond"

BlobMissing(i) == BlobName(req[i].ticker, req[i].report_type) \notin DOMAIN bucket

\* C1: a GET whose report_type is not one of the three values is answered
\* with status 400 and a detail that lists the three valid values.
InvalidReportTypeGets400 ==
  \A i \in Reqs :
    GetDone(i) /\ req[i].report_type \notin ValidReportTypes
      => resp[i].status = 400 /\ resp[i].detail.values = ReportTypeValues

\* C2: a POST whose JSON body has no question, or an empty one, is answered
\* with status 400, and the analysis function is not called for it.
MissingQuestionGets400 ==
  \A i \in Reqs :
    PostDone(i) /\ req[i].json_ok /\ (~req[i].has_question \/ req[i].question = <<>>)
      => resp[i].status = 400 /\ ~Has(calls[i], "analyze")

\* C3: a GET with a valid report_type, with the credentials value unset or
\* empty, is answered 200 with exactly {data: [], columns: []}, and no
\* storage client is created.
NoCredentialsGivesDataAndColumns ==
  \A i \in Reqs :
    GetDone(i) /\ req[i].report_type \in ValidReportTypes /\ Falsy(credentials)
      => resp[i] = EmptyData /\ ~Has(calls[i], "Client")

\* Every download follows an existence check of the same request.
ExistsBeforeDownload ==
  \A i \in Reqs :
    \A k \in 1..Len(calls[i]) :
      calls[i][k] = "download" => \E j \in 1..(k - 1) : calls[i][j] = "exists"

\* C4 as stated: a GET with a valid report_type and credentials present
\* checks existence before reading, and when the blob does not exist it is
\* answered 200 with {data: [], columns: []} and nothing is downloaded or parsed.
MissingBlobGivesEmptyData ==
  /\ ExistsBeforeDownload
  /\ \A i \in Reqs :
       req[i].kind = "GET" /\ req[i].report_type \in ValidReportTypes
       /\ ~Falsy(credentials) /\ BlobMissing(i)
         => /\ ~Has(calls[i], "download") /\ ~Has(calls[i], "read_csv")
            /\ pc[i] = "respond" => resp[i] = EmptyData

\* C4 amended: as above, with the answer 200 {data: [], columns: []} claimed
\* when the credentials decode to a service account and the existence check
\* is answered by the storage service.
MissingBlobGivesEmptyDataWhenReachable ==
  /\ ExistsBeforeDownload
  /\ \A i \in Reqs :
       req[i].kind = "GET" /\ req[i].report_type \in ValidReportTypes
       /\ ~Falsy(credentials) /\ BlobMissing(i)
         => /\ ~Has(calls[i], "download") /\ ~Has(calls[i], "read_csv")
            /\ pc[i] = "respond" /\ credentials = "b64json"
               /\ resp[i].detail.type # "TransportError"
                 => resp[i] = EmptyData

\* A missing blob was looked up and answered with the empty result.
MissingBlobAnswered ==
  \E i \in Reqs :
    /\ GetDone(i) /\ req[i].report_type \in ValidReportTypes
    /\ credentials = "b64json" /\ BlobMissing(i)
    /\ calls[i] = <<"getenv", "Client", "exists">>
    /\ resp[i] = EmptyData
    /\ req[i].ticker = <<"T">>

\* C5: the report_type check comes before any I/O: a request with an unknown
\* report_type makes no call at all (no credentials read, no client, no
\* exists, no download), and calls are made only once the type is accepted.
ValidationBeforeIO ==
  \A i \in Reqs :
    req[i].kind = "GET" =>
      /\ req[i].report_type \notin ValidReportTypes => calls[i] = <<>>
      /\ calls[i] # <<>> => req[i].report_type \in ValidReportTypes /\ pc[i] # "g_validate"

\* An unknown report_type was rejected, and no call was made for it.
UnknownTypeRejected ==
  \E i \in Reqs :
    GetDone(i) /\ req[i].report_type = "cashflow" /\ resp[i].status # 0 /\ calls[i] = <<>>

\* The claimed row test of C6: the lowercase label equals the lowercase of
\* an entry of the report type's whitelist.
ClaimedMatch(row, rt) ==
  row[1].t = "str" /\ \E m \in MetricMapping(rt) : Lower(row[1].s) = Lower(m)

\* C6: for every parsed table and valid report type the filter keeps exactly
\* the rows whose lowercase label equals the lowercase of a whitelist entry,
\* in their order, with the columns unchanged and never more rows; no match
\* gives zero rows, not an error.
FilterKeepsExactlyWhitelisted ==
  fstage \in {"filtered", "refiltered"} =>
    /\ fout.ok
    /\ fout.val.columns = fdf.val.columns
    /\ fout.val.rows = SelectSeq(fdf.val.rows, LAMBDA row : ClaimedMatch(row, frt))
    /\ Len(fout.val.rows) <= Len(fdf.val.rows)

WriteFailureKeepsSuccess ==
  \A i \in Reqs :
    gen[i].kind = "text" /\ gen[i].text # <<>> /\ pc[i] \in {"p_return", "respond"}
      => /\ Has(printed[i], Msg("analysis", "", gen[i].text))
         /\ \A k \in 1..Len(printed[i]) : printed[i][k].msg # "error"

\* No file is written by one request in flight and accessed by another.
NoSharedFile ==
  \A i, j \in Reqs :
    i # j => \A a \in touched[i], b \in touched[j] :
               a.path = b.path => a.mode = "r" /\ b.mode = "r"

\* Contents a file has after requests run one after another: a statement,
\* a whole generated text, or nothing (a write that failed).
SerialContents == {StatementText, <<>>} \cup Texts

\* C9: requests share no mutable state: no step of one request writes what
\* another request in flight reads or writes, and once all requests are
\* done every file holds what some one-after-another run leaves in it.
RequestsShareNoState ==
  /\ NoSharedFile
  /\ Quiet => \A p \in DOMAIN files : files[p] \in SerialContents

\* C10: filtering a filtered table again with the same report type gives the
\* filtered table: same columns, same rows, same order.
FilterIdempotent ==
  fstage = "refiltered" => fagain.ok /\ fagain.val = fout.val

\* A table of three rows was filtered down to two and filtered again.
RefilteredTwoOfThree ==
  /\ fstage = "refiltered"
  /\ Len(fdf.val.rows) = 3
  /\ Len(fout.val.rows) = 2
  /\ fout.val.rows[1] # fout.val.rows[2]

====
